---- MODULE Spec2Model ----
(***************************************************************************)
(* Sigma-point core of the spkf filters (src/spkf/sigma_base.h):           *)
(* SigmaBase<Derived>, instantiated with nx = nz = 1 (L = 3, r = 7).       *)
(*                                                                         *)
(* Scalars are exact integers extended with NaN, the value sqrt gives for  *)
(* a negative argument: a scalar is <<v>> or NaN == << >>.  Vectors are    *)
(* functions on 0..n-1, matrices are functions row -> column -> scalar,    *)
(* indexed from 0 as in the code.                                          *)
(***************************************************************************)
EXTENDS Integers, Sequences, FiniteSets, TLC

\* ------------------------------------------------------------ dimensions
nx == 1
nz == 1
L == nx + nx + nz
r == 2 * L + 1

\* ------------------------------------------------------------ bounds
\* largest finite magnitude of a state entry a driver hands on to a next call
MaxAbs == 8
\* largest spread factor a variant supplies
MaxGamma == 4
\* largest covariance entry a constructor argument or a covariance hook supplies
MaxCovar == 4

\* calls the driver of an instance makes where two instances are followed
MaxCopyCalls == 6

\* ------------------------------------------------------------ scalar_t
NaN == << >>
Num(v) == << v >>
IsNaN(a) == a = NaN

Add(a, b) == IF IsNaN(a) \/ IsNaN(b) THEN NaN ELSE Num(a[1] + b[1])
Sub(a, b) == IF IsNaN(a) \/ IsNaN(b) THEN NaN ELSE Num(a[1] - b[1])
Mul(a, b) == IF IsNaN(a) \/ IsNaN(b) THEN NaN ELSE Num(a[1] * b[1])

\* truncating quotient; a zero divisor never reaches it (LLT divides by sqrt(x), x > 0)
Div(a, b) ==
    IF IsNaN(a) \/ IsNaN(b) \/ b = Num(0) THEN NaN
    ELSE IF (a[1] >= 0) = (b[1] > 0)
         THEN Num((IF a[1] >= 0 THEN a[1] ELSE -a[1]) \div (IF b[1] > 0 THEN b[1] ELSE -b[1]))
         ELSE Num(-((IF a[1] >= 0 THEN a[1] ELSE -a[1]) \div (IF b[1] > 0 THEN b[1] ELSE -b[1])))

\* sqrt: NaN for a negative or NaN argument, else the root rounded down to the grid
Sqrt(a) ==
    IF IsNaN(a) THEN NaN
    ELSE IF a[1] < 0 THEN NaN
    ELSE Num(CHOOSE s \in 0..a[1] : s * s <= a[1] /\ (s + 1) * (s + 1) > a[1])

\* x <= 0 as the floating-point comparison: false when x is NaN
LeqZero(a) == ~IsNaN(a) /\ a[1] <= 0

\* ------------------------------------------------------------ vectors, matrices
Rows(n) == 0..(n - 1)

Vec(n, v) == [i \in Rows(n) |-> v]
Mat(n, m, v) == [i \in Rows(n) |-> [j \in Rows(m) |-> v]]
ScalarMat(n, v) == [i \in Rows(n) |-> [j \in Rows(n) |-> IF i = j THEN Num(v) ELSE Num(0)]]

VAdd(x, y) == [i \in DOMAIN x |-> Add(x[i], y[i])]
VScale(c, x) == [i \in DOMAIN x |-> Mul(c, x[i])]

\* M.col(j)
Col(M, j) == [i \in DOMAIN M |-> M[i][j]]
\* M.block(r0, c0, n, m) read out as an n x m matrix
Block(M, r0, c0, n, m) == [i \in Rows(n) |-> [j \in Rows(m) |-> M[r0 + i][c0 + j]]]
\* M with M.block(r0, c0, n, m) = B
WriteBlock(M, r0, c0, n, m, B) ==
    [i \in DOMAIN M |-> [j \in DOMAIN M[i] |->
        IF i >= r0 /\ i < r0 + n /\ j >= c0 /\ j < c0 + m THEN B[i - r0][j - c0] ELSE M[i][j]]]

\* ------------------------------------------------------------ LLT
\* Eigen's in-place Cholesky of the lower triangle, column k onwards.  A pivot
\* x <= 0 stops it (info() = NumericalIssue) and leaves the rest as it is.
RECURSIVE LLTFrom(_, _, _)
LLTFrom(A, n, k) ==
    IF k = n THEN [m |-> A, ok |-> TRUE]
    ELSE LET RECURSIVE Dot(_, _, _)
             Dot(i, j, c) == IF c = 0 THEN Num(0)
                             ELSE Add(Dot(i, j, c - 1), Mul(A[i][c - 1], A[j][c - 1]))
             x == Sub(A[k][k], Dot(k, k, k))
         IN IF LeqZero(x) THEN [m |-> A, ok |-> FALSE]
            ELSE LET d == Sqrt(x)
                     A1 == [i \in Rows(n) |-> [j \in Rows(n) |->
                              IF j = k /\ i = k THEN d
                              ELSE IF j = k /\ i > k THEN Div(Sub(A[i][k], Dot(i, k, k)), d)
                              ELSE A[i][j]]]
                 IN LLTFrom(A1, n, k + 1)

\* LLT<covar_t> llt(covar.triangularView<Lower>())
LLT(covar, n) ==
    LLTFrom([i \in Rows(n) |-> [j \in Rows(n) |-> IF j <= i THEN covar[i][j] ELSE Num(0)]], n, 0)

\* llt.matrixL() assigned to a dense matrix: the lower triangle, zeros above it
MatrixL(llt, n) == [i \in Rows(n) |-> [j \in Rows(n) |-> IF j <= i THEN llt.m[i][j] ELSE Num(0)]]

\* ------------------------------------------------------------ inputs
\* what storage no constructor writes can hold (Eigen leaves a fixed-size matrix
\* uninitialised): zeroed memory, or what an earlier use left there
Garbage == {"zeroed", "stale"}
Indeterminate(g, n, m) ==
    [i \in Rows(n) |-> [j \in Rows(m) |->
        IF g = "zeroed" THEN Num(0) ELSE Num(1 + ((i + 2 * j) % 3))]]
\* constructor arguments
StateValues == {0, 2}
CovarValues == {-MaxCovar, 1, MaxCovar}
\* process-noise and observation-noise covariance
NoiseCovars == {<<1, MaxCovar>>, <<MaxCovar, 1>>}
\* a variant: what it returns from gamma(), wm0() and wmi(), and the process
\* and observation models it supplies as _f and _h
Gammas == {-1, 0, MaxGamma}
Weights == {<<1, 0>>, <<1 - 2 * L, 1>>}
Models == {<<"drift", "linear">>, <<"square", "square">>}
Variants == {[gamma |-> g, wts |-> w, fn |-> m[1], hn |-> m[2]] :
                g \in Gammas, w \in Weights, m \in Models}
Controls == {0, 1}
\* the entries a variant's gain hook leaves in the cross covariance
CrossCovarValues == {0, 1}
Dts == {1}

\* ------------------------------------------------------------ state
VARIABLES
    state,          \* KFBase::_state, per instance
    covar,          \* KFBase::_covar
    proc_covar,     \* KFBase::_proc_covar
    obs_covar,      \* KFBase::_obs_covar
    observation,    \* the observation vector _observe writes
    aug_vector,     \* _aug_vector
    aug_matrix,     \* _aug_matrix
    aug_sigmas,     \* _aug_sigmas
    obs_sigmas,     \* _obs_sigmas
    cross_covar,    \* _cross_covar
    refs,           \* the instance whose _aug_sigmas / _aug_matrix the Ref members alias
    variant,        \* the derived filter variant of the instance
    gen,            \* the state and covariance the latest _generate_sigmas was handed, and by whom
    last,           \* the latest call: its arguments and its result
    pos             \* the driver's place in its cycle: 0 after construction, then 1..6

vars == <<state, covar, proc_covar, obs_covar, observation, aug_vector, aug_matrix, aug_sigmas, obs_sigmas,
          cross_covar, refs, variant, gen, last, pos>>

\* KFBase::proc_noise() and obs_noise(): the zero noise means
proc_noise == Vec(nx, Num(0))
obs_noise == Vec(nz, Num(0))

\* the Ref members: blocks of the aliased instance's storage
\* _state_sigmas.col(i), _proc_noise_sigmas.col(i), _obs_noise_sigmas.col(i)
StateSigmasCol(S, i) == [k \in Rows(nx) |-> S[k][i]]
ProcNoiseSigmasCol(S, i) == [k \in Rows(nx) |-> S[nx + k][i]]
ObsNoiseSigmasCol(S, i) == [k \in Rows(nz) |-> S[2 * nx + k][i]]
\* _state_sigmas.col(i) = y
WriteStateSigmasCol(S, i, y) ==
    [k \in DOMAIN S |-> [j \in DOMAIN S[k] |-> IF j = i /\ k < nx THEN y[k] ELSE S[k][j]]]
\* _chol_covar, _chol_proc_covar, _chol_obs_covar read out of an augmented matrix
CholCovar(M) == Block(M, 0, 0, nx, nx)
CholProcCovar(M) == Block(M, nx, nx, nx, nx)
CholObsCovar(M) == Block(M, 2 * nx, 2 * nx, nz, nz)
\* mutant: the state factor goes into the process-noise block
WriteCholCovar_ProcBlock(M, C) == WriteBlock(M, nx, nx, nx, nx, C)
\* _chol_covar = C and its two siblings
WriteCholCovar(M, C) == WriteBlock(M, 0, 0, nx, nx, C)
WriteCholProcCovar(M, C) == WriteBlock(M, nx, nx, nx, nx, C)
WriteCholObsCovar(M, C) == WriteBlock(M, 2 * nx, 2 * nx, nz, nz, C)

\* ------------------------------------------------------------ variant models
\* _f(state sigma, control, process noise sigma, del): the image of the state sigma
F(fn, xs, u, w, dt) ==
    [k \in Rows(nx) |->
        IF fn = "drift" THEN Add(Add(xs[k], Mul(Num(u), Num(dt))), w[k])
        ELSE Add(Mul(xs[k], xs[k]), w[k])]
\* _h(state sigma, observation sigma, observation noise sigma): the observation sigma
H(hn, xs, w) ==
    [k \in Rows(nz) |->
        IF hn = "linear" THEN Add(xs[k % nx], w[k])
        ELSE Add(Mul(xs[k % nx], xs[k % nx]), w[k])]

\* ------------------------------------------------------------ constructor
\* SigmaBase(state, covar, proc_covar, obs_covar): the three factors go through
\* the Ref members into the diagonal blocks; nothing else of _aug_matrix is written
Construct(garbage, c, pc, oc) ==
    WriteCholObsCovar(
        WriteCholProcCovar(
            WriteCholCovar(garbage, MatrixL(LLT(c, nx), nx)),
            MatrixL(LLT(pc, nx), nx)),
        MatrixL(LLT(oc, nz), nz))

\* ------------------------------------------------------------ _generate_sigmas
\* mutant: the state is written over the noise means as well
AugVector_StateInNoiseRows(state_k) == [k \in Rows(L) |-> state_k[k % nx]]
\* the augmented vector: [state; proc_noise; obs_noise]
AugVector(state_k) ==
    [k \in Rows(L) |-> IF k < nx THEN state_k[k]
                       ELSE IF k < 2 * nx THEN proc_noise[k - nx]
                       ELSE obs_noise[k - 2 * nx]]

\* mutant: columns i+L are spread to the same side as columns i
SigmaColumns_SameSign(av, M, sqrt_gamma) ==
    [k \in Rows(L) |-> [j \in Rows(r) |->
        IF j = 0 THEN av[k]
        ELSE IF j <= L THEN Add(av[k], Mul(sqrt_gamma, M[k][j - 1]))
        ELSE Add(av[k], Mul(sqrt_gamma, M[k][j - L - 1]))]]
\* column 0 is the augmented vector, columns i and i+L are it plus and minus
\* sqrt_gamma * _aug_matrix.col(i-1)
SigmaColumns(av, M, sqrt_gamma) ==
    [k \in Rows(L) |-> [j \in Rows(r) |->
        IF j = 0 THEN av[k]
        ELSE IF j <= L THEN Add(av[k], Mul(sqrt_gamma, M[k][j - 1]))
        ELSE Sub(av[k], Mul(sqrt_gamma, M[k][j - L - 1]))]]

\* _generate_sigmas(state_k, covar_k) of instance id on the heap h.  _chol_covar
\* is written through the Ref; _aug_vector, _aug_matrix and _aug_sigmas are the
\* instance's own members.  Returns the heap; the call returns true.
GenerateSigmas(id, state_k, covar_k, gamma, h) ==
    LET llt == LLT(covar_k, nx)
        am == [h.aug_matrix EXCEPT ![h.refs[id]] = WriteCholCovar(@, MatrixL(llt, nx))]
        av == AugVector(state_k)
        sqrt_gamma == Sqrt(Num(gamma))
    IN [h EXCEPT !.aug_matrix = am,
                 !.aug_vector = [h.aug_vector EXCEPT ![id] = av],
                 !.aug_sigmas = [h.aug_sigmas EXCEPT
                                    ![id] = SigmaColumns(av, am[id], sqrt_gamma)],
                 !.llt_ok = llt.ok]

\* ------------------------------------------------------------ _process
\* mutant: the process model is given the state column before, which the pass
\* before has overwritten
ProcessColumn_ColumnBefore(S, i, state_k, fn, u, dt, wts) ==
    LET noise_i == ProcNoiseSigmasCol(S, i)
        S1 == WriteStateSigmasCol(S, i,
                F(fn, StateSigmasCol(S, IF i = 0 THEN 0 ELSE i - 1), u, noise_i, dt))
    IN [sig |-> S1,
        state_k |-> IF i = 0 THEN VScale(Num(wts[1]), StateSigmasCol(S1, 0))
                    ELSE VAdd(state_k, VScale(Num(wts[2]), StateSigmasCol(S1, i)))]
\* one pass of the propagation: column i of the state sigmas is replaced by its
\* image under _f, then weighed into state_k
ProcessColumn(S, i, state_k, fn, u, dt, wts) ==
    LET noise_i == ProcNoiseSigmasCol(S, i)
        S1 == WriteStateSigmasCol(S, i, F(fn, StateSigmasCol(S, i), u, noise_i, dt))
    IN [sig |-> S1,
        state_k |-> IF i = 0 THEN VScale(Num(wts[1]), StateSigmasCol(S1, 0))
                    ELSE VAdd(state_k, VScale(Num(wts[2]), StateSigmasCol(S1, i)))]

RECURSIVE ProcessLoop(_, _, _, _, _, _, _)
ProcessLoop(S, i, state_k, fn, u, dt, wts) ==
    IF i = r THEN [sig |-> S, state_k |-> state_k]
    ELSE LET p == ProcessColumn(S, i, state_k, fn, u, dt, wts)
         IN ProcessLoop(p.sig, i + 1, p.state_k, fn, u, dt, wts)

\* _process(state_k, control_k, del_k) of instance id
DoProcess(id, state_k, covar_k, u, dt, gamma, wts, fn, h) ==
    LET g == GenerateSigmas(id, state_k, covar_k, gamma, h)
        own == g.refs[id]
        p == ProcessLoop(g.aug_sigmas[own], 0, state_k, fn, u, dt, wts)
    IN [heap |-> [g EXCEPT !.aug_sigmas = [g.aug_sigmas EXCEPT ![own] = p.sig]],
        state_k |-> p.state_k]

\* ------------------------------------------------------------ _observe
ObserveColumn(S, O, i, observation_k, hn, wts) ==
    LET noise_i == ObsNoiseSigmasCol(S, i)
        y == H(hn, StateSigmasCol(S, i), noise_i)
        O1 == [k \in DOMAIN O |-> [j \in DOMAIN O[k] |-> IF j = i THEN y[k] ELSE O[k][j]]]
    IN [obs |-> O1,
        observation_k |-> IF i = 0 THEN VScale(Num(wts[1]), Col(O1, 0))
                          ELSE VAdd(observation_k, VScale(Num(wts[2]), Col(O1, i)))]

RECURSIVE ObserveLoop(_, _, _, _, _, _)
ObserveLoop(S, O, i, observation_k, hn, wts) ==
    IF i = r THEN [obs |-> O, observation_k |-> observation_k]
    ELSE LET p == ObserveColumn(S, O, i, observation_k, hn, wts)
         IN ObserveLoop(S, p.obs, i + 1, p.observation_k, hn, wts)

\* _observe(observation_k) of instance id
DoObserve(id, observation_k, gamma, wts, hn, h) ==
    LET g == GenerateSigmas(id, h.state[id], h.covar[id], gamma, h)
        p == ObserveLoop(g.aug_sigmas[g.refs[id]], g.obs_sigmas[id], 0, observation_k, hn, wts)
    IN [heap |-> [g EXCEPT !.obs_sigmas = [g.obs_sigmas EXCEPT ![id] = p.obs]],
        observation_k |-> p.observation_k]

\* ------------------------------------------------------------ calls
\* the members an operation works on, as one record
Heap ==
    [state |-> state, covar |-> covar, aug_vector |-> aug_vector, aug_matrix |-> aug_matrix,
     aug_sigmas |-> aug_sigmas, obs_sigmas |-> obs_sigmas, refs |-> refs, llt_ok |-> TRUE]

\* the record of a call: the result it returned, the control and time increment it
\* was given, the state and covariance it found, the outcome of its factorization
\* and the factor _chol_covar holds (and a hook is handed) at its end
Call(id, op, u, dt, llt_ok, chol) ==
    [id |-> id, op |-> op, ret |-> "true", u |-> u, dt |-> dt, state_in |-> state[id],
     covar_in |-> covar[id], llt_ok |-> llt_ok, chol |-> chol]

\* the driver's cycle: process, process_covar, observe, innovation_covar,
\* kalman_gain, update_covar, and process again
Cycle == <<"process", "process_covar", "observe", "innovation_covar", "kalman_gain", "update_covar">>
IsNext(id, op) == Cycle[(pos[id] % 6) + 1] = op
Advance(id) == [pos EXCEPT ![id] = (@ % 6) + 1]

\* a state entry the driver can hand on: NaN, or finite within the bound
InRange(v) ==
    \A k \in DOMAIN v : IF IsNaN(v[k]) THEN TRUE ELSE v[k][1] <= MaxAbs /\ -v[k][1] <= MaxAbs

\* process(control, del): _process on the instance's own state
Process(id, controls) ==
    \E u \in controls, dt \in Dts :
        LET v == variant[id]
            p == DoProcess(id, state[id], covar[id], u, dt, v.gamma, v.wts, v.fn, Heap)
        IN /\ IsNext(id, "process")
           /\ InRange(p.state_k)
           /\ state' = [state EXCEPT ![id] = p.state_k]
           /\ aug_vector' = p.heap.aug_vector
           /\ aug_matrix' = p.heap.aug_matrix
           /\ aug_sigmas' = p.heap.aug_sigmas
           /\ gen' = [gen EXCEPT ![id] = [by |-> "process", state |-> state[id], covar |-> covar[id]]]
           /\ last' = Call(id, "process", u, dt, p.heap.llt_ok,
                           CholCovar(p.heap.aug_matrix[refs[id]]))
           /\ pos' = Advance(id)
           /\ UNCHANGED <<covar, proc_covar, obs_covar, observation, obs_sigmas, cross_covar,
                         refs, variant>>

\* observe(): _observe into the instance's observation
Observe(id) ==
    LET v == variant[id]
        p == DoObserve(id, observation[id], v.gamma, v.wts, v.hn, Heap)
    IN /\ IsNext(id, "observe")
       /\ observation' = [observation EXCEPT ![id] = p.observation_k]
       /\ aug_vector' = p.heap.aug_vector
       /\ aug_matrix' = p.heap.aug_matrix
       /\ aug_sigmas' = p.heap.aug_sigmas
       /\ obs_sigmas' = p.heap.obs_sigmas
       /\ gen' = [gen EXCEPT ![id] = [by |-> "observe", state |-> state[id],
                                       covar |-> covar[id]]]
       /\ last' = Call(id, "observe", 0, 0, p.heap.llt_ok,
                       CholCovar(p.heap.aug_matrix[refs[id]]))
       /\ pos' = Advance(id)
       /\ UNCHANGED <<state, covar, proc_covar, obs_covar, cross_covar, refs, variant>>

\* mutant: the hooks are handed the process-noise factor
HookChol_ProcNoise(id) == CholProcCovar(aug_matrix[refs[id]])
\* the factor _process_covar and _update_covar hand to the variant: _chol_covar
HookChol(id) == CholCovar(aug_matrix[refs[id]])

\* process_covar(): _process_covar_sp(covar_k, _chol_covar) assembles the covariance
ProcessCovar(id, covars) ==
    \E c \in covars :
        /\ IsNext(id, "process_covar")
        /\ covar' = [covar EXCEPT ![id] = ScalarMat(nx, c)]
        /\ last' = Call(id, "process_covar", 0, 0, TRUE, HookChol(id))
        /\ pos' = Advance(id)
        /\ UNCHANGED <<state, proc_covar, obs_covar, observation, aug_vector, aug_matrix,
                       aug_sigmas, obs_sigmas, cross_covar, refs, gen, variant>>

\* innovation_covar(): _innovation_covar_sp(inov_covar_k) writes the caller's matrix
InnovationCovar(id) ==
    /\ IsNext(id, "innovation_covar")
    /\ last' = Call(id, "innovation_covar", 0, 0, TRUE, CholCovar(aug_matrix[refs[id]]))
    /\ pos' = Advance(id)
    /\ UNCHANGED <<state, covar, proc_covar, obs_covar, observation, aug_vector, aug_matrix,
                   aug_sigmas, obs_sigmas, cross_covar, refs, gen, variant>>

\* kalman_gain(): _kalman_gain_sp(kalman_gain_k, _cross_covar) refreshes _cross_covar
KalmanGain(id, crosses) ==
    \E c \in crosses :
        /\ IsNext(id, "kalman_gain")
        /\ cross_covar' = [cross_covar EXCEPT ![id] = Mat(nx, nz, Num(c))]
        /\ last' = Call(id, "kalman_gain", 0, 0, TRUE, CholCovar(aug_matrix[refs[id]]))
        /\ pos' = Advance(id)
        /\ UNCHANGED <<state, covar, proc_covar, obs_covar, observation, aug_vector, aug_matrix,
                       aug_sigmas, obs_sigmas, refs, gen, variant>>

\* update_covar(): _update_covar_sp(covar_k, _chol_covar) assembles the posterior
UpdateCovar(id, covars) ==
    \E c \in covars :
        /\ IsNext(id, "update_covar")
        /\ covar' = [covar EXCEPT ![id] = ScalarMat(nx, c)]
        /\ last' = Call(id, "update_covar", 0, 0, TRUE, HookChol(id))
        /\ pos' = Advance(id)
        /\ UNCHANGED <<state, proc_covar, obs_covar, observation, aug_vector, aug_matrix,
                       aug_sigmas, obs_sigmas, cross_covar, refs, gen, variant>>

\* ------------------------------------------------------------ one instance
\* after SigmaBase(state, covar, proc_covar, obs_covar) on storage in condition g
Constructed(g, v, s, c, pc, oc) ==
    /\ state = (1 :> Vec(nx, Num(s)))
    /\ covar = (1 :> ScalarMat(nx, c))
    /\ proc_covar = (1 :> ScalarMat(nx, pc))
    /\ obs_covar = (1 :> ScalarMat(nz, oc))
    /\ observation = (1 :> Vec(nz, Num(0)))
    /\ aug_vector = (1 :> Col(Indeterminate(g, L, 1), 0))
    /\ aug_matrix = (1 :> Construct(Indeterminate(g, L, L), ScalarMat(nx, c),
                                    ScalarMat(nx, pc), ScalarMat(nz, oc)))
    /\ aug_sigmas = (1 :> Indeterminate(g, L, r))
    /\ obs_sigmas = (1 :> Indeterminate(g, nz, r))
    /\ cross_covar = (1 :> Indeterminate(g, nx, nz))
    /\ refs = (1 :> 1)
    /\ variant = (1 :> v)
    /\ gen = (1 :> [by |-> "construct", state |-> Vec(nx, Num(s)), covar |-> ScalarMat(nx, c)])
    /\ last = [id |-> 1, op |-> "construct", ret |-> "true", u |-> 0, dt |-> 0,
               state_in |-> Vec(nx, Num(s)), covar_in |-> ScalarMat(nx, c),
               llt_ok |-> LLT(ScalarMat(nx, c), nx).ok,
               chol |-> MatrixL(LLT(ScalarMat(nx, c), nx), nx)]
    /\ pos = (1 :> 0)

Init ==
    \E g \in Garbage, v \in Variants, s \in StateValues, c \in CovarValues,
       n \in NoiseCovars :
        Constructed(g, v, s, c, n[1], n[2])

Next ==
    \/ Process(1, Controls)
    \/ ProcessCovar(1, CovarValues)
    \/ Observe(1)
    \/ InnovationCovar(1)
    \/ KalmanGain(1, CrossCovarValues)
    \/ UpdateCovar(1, CovarValues)

Spec == Init /\ [][Next]_vars
\* ------------------------------------------------------------ a copy
\* SigmaBase(const SigmaBase&), the implicit copy constructor: every member is
\* copied, a Ref member as the reference it is
Copy(src, dst) ==
    /\ src \in DOMAIN refs
    /\ dst \notin DOMAIN refs
    /\ state' = state @@ (dst :> state[src])
    /\ covar' = covar @@ (dst :> covar[src])
    /\ proc_covar' = proc_covar @@ (dst :> proc_covar[src])
    /\ obs_covar' = obs_covar @@ (dst :> obs_covar[src])
    /\ observation' = observation @@ (dst :> observation[src])
    /\ aug_vector' = aug_vector @@ (dst :> aug_vector[src])
    /\ aug_matrix' = aug_matrix @@ (dst :> aug_matrix[src])
    /\ aug_sigmas' = aug_sigmas @@ (dst :> aug_sigmas[src])
    /\ obs_sigmas' = obs_sigmas @@ (dst :> obs_sigmas[src])
    /\ cross_covar' = cross_covar @@ (dst :> cross_covar[src])
    /\ refs' = refs @@ (dst :> refs[src])
    /\ variant' = variant @@ (dst :> variant[src])
    /\ gen' = gen @@ (dst :> [gen[src] EXCEPT !.by = "copy"])
    /\ last' = [id |-> dst, op |-> "copy", ret |-> "true", u |-> 0, dt |-> 0,
                state_in |-> state[src], covar_in |-> covar[src], llt_ok |-> TRUE,
                chol |-> CholCovar(aug_matrix[refs[src]])]
    /\ pos' = pos @@ (dst :> 0)

\* one instance built by the four-argument constructor, and a copy of it
CopyVariants == {v \in Variants : v.gamma = MaxGamma /\ v.fn = "drift"}
InitCopy ==
    \E g \in Garbage, v \in CopyVariants :
        Constructed(g, v, 0, 1, 1, MaxCovar)

\* the instances whose driver still makes calls
Running == {i \in DOMAIN refs : pos[i] < MaxCopyCalls}

NextCopy ==
    \/ Copy(1, 2)
    \/ \E id \in Running : Process(id, {1})
    \/ \E id \in Running : ProcessCovar(id, {MaxCovar})
    \/ \E id \in Running : Observe(id)
    \/ \E id \in Running : InnovationCovar(id)
    \/ \E id \in Running : KalmanGain(id, {1})
    \/ \E id \in Running : UpdateCovar(id, {1})

SpecCopy == InitCopy /\ [][NextCopy]_vars

\* ------------------------------------------------------------ properties
\* the instance has generated sigma points at least once
Generated == gen[1].by \in {"process", "observe"}
\* sqrt_gamma of the instance's variant
SqrtGamma == Sqrt(Num(variant[1].gamma))
\* entry (i, j) lies in one of the three diagonal blocks of the augmented matrix
InBlock(i, j) ==
    \/ i < nx /\ j < nx
    \/ i >= nx /\ i < 2 * nx /\ j >= nx /\ j < 2 * nx
    \/ i >= 2 * nx /\ j >= 2 * nx
\* rows k of the sigma matrix are the augmented vector in column 0 and the
\* augmented vector plus and minus sqrt_gamma * _aug_matrix.col(i-1) in columns
\* i and i+L
Spread(rows) ==
    \A k \in rows :
        /\ aug_sigmas[1][k][0] = aug_vector[1][k]
        /\ \A i \in 1..L :
            /\ aug_sigmas[1][k][i] = Add(aug_vector[1][k], Mul(SqrtGamma, aug_matrix[1][k][i - 1]))
            /\ aug_sigmas[1][k][i + L] = Sub(aug_vector[1][k], Mul(SqrtGamma, aug_matrix[1][k][i - 1]))
\* columns i and i+L add up to twice column 0
Mirrored ==
    \A i \in 1..L :
        VAdd(Col(aug_sigmas[1], i), Col(aug_sigmas[1], i + L))
            = VScale(Num(2), Col(aug_sigmas[1], 0))

\* C1 as stated, taken on the runs with an admissible gamma, a factorization
\* that succeeded and zeros outside the diagonal blocks: in every state after the
\* first sigma-point generation column 0 of the augmented sigma-point matrix is
\* the augmented vector and columns i and i+L add up to twice column 0.
C1_AlwaysMirrored ==
    (/\ Generated
     /\ variant[1].gamma >= 0
     /\ LLT(gen[1].covar, nx).ok
     /\ \A i \in Rows(L), j \in Rows(L) : InBlock(i, j) \/ aug_matrix[1][i][j] = Num(0)) =>
        (Col(aug_sigmas[1], 0) = aug_vector[1] /\ Mirrored)

\* C1 amended: after every sigma-point generation column 0 is the augmented vector
\* and columns i and i+L are the augmented vector plus and minus the same offset
\* sqrt(gamma) * _aug_matrix.col(i-1); this lasts through observe and the
\* covariance and gain calls, while process overwrites rows [0,nx) of every
\* column, so that from process to the next observe it holds of the noise rows
\* [nx,L) only.
C1_SpreadUntilPropagated ==
    Generated => Spread(IF gen[1].by = "process" THEN nx..(L - 1) ELSE Rows(L))

\* C1 witness: process has propagated a spread sigma set; column 0 no longer is
\* the augmented vector and the state rows are no mirror images.
C1_Witness ==
    /\ gen[1].by = "process"
    /\ last.op = "process_covar"
    /\ variant[1].gamma > 0
    /\ LLT(gen[1].covar, nx).ok
    /\ Col(aug_sigmas[1], 0) # aug_vector[1]
    /\ ~Mirrored

\* C2: a process or observe call of a variant whose gamma is negative is rejected
\* with InvalidSpreadFactor.
C2_NegativeGammaRejected ==
    (last.op \in {"process", "observe"} /\ variant[1].gamma < 0) =>
        last.ret = "InvalidSpreadFactor"

\* C3: a process or observe call that hands sigma-point generation a covariance
\* with a negative diagonal entry (not positive semidefinite) does not report
\* success.
C3_NonPsdIsHardFailure ==
    (last.op \in {"process", "observe"}
        /\ \E k \in Rows(nx) : last.covar_in[k][k][1] < 0) =>
        last.ret # "true"

\* C4: after every sigma-point generation every entry of the augmented matrix
\* outside its three diagonal blocks is zero.
C4_BlockDiagonal ==
    Generated =>
        \A i \in Rows(L), j \in Rows(L) : InBlock(i, j) \/ aug_matrix[1][i][j] = Num(0)

\* C5: right after sigma-point generation (observe leaves the generated columns
\* as they are) column 0 is the augmented vector, columns i and i+L are the
\* augmented vector plus and minus sqrt(gamma) * _aug_matrix.col(i-1), and
\* column i plus column i+L is twice the augmented vector.
C5_ColumnsAndSymmetry ==
    last.op = "observe" =>
        /\ Spread(Rows(L))
        /\ \A i \in 1..L :
            VAdd(Col(aug_sigmas[1], i), Col(aug_sigmas[1], i + L))
                = VScale(Num(2), aug_vector[1])

\* the sigma points _process generated from the state it was given, before it
\* propagated them
PreImage == SigmaColumns(AugVector(last.state_in), aug_matrix[1], SqrtGamma)
\* the image of column i of those under the process model, with the process
\* noise of the same column
Image(i) ==
    F(variant[1].fn, StateSigmasCol(PreImage, i), last.u, ProcNoiseSigmasCol(PreImage, i),
      last.dt)
RECURSIVE ImageSum(_)
ImageSum(i) == IF i = 0 THEN Vec(nx, Num(0)) ELSE VAdd(ImageSum(i - 1), Image(i))

\* C6: after process the state is wm0 * f(column 0) + wmi * (f(column 1) + ... +
\* f(column r-1)), each state-sigma column holds the image of its own pre-image
\* with the process noise of its own index, and the noise rows are untouched.
C6_WeightedMeanOfImages ==
    last.op = "process" =>
        /\ state[1] = VAdd(VScale(Num(variant[1].wts[1]), Image(0)),
                           VScale(Num(variant[1].wts[2]), ImageSum(r - 1)))
        /\ \A i \in Rows(r) :
            /\ StateSigmasCol(aug_sigmas[1], i) = Image(i)
            /\ ProcNoiseSigmasCol(aug_sigmas[1], i) = ProcNoiseSigmasCol(PreImage, i)
            /\ ObsNoiseSigmasCol(aug_sigmas[1], i) = ObsNoiseSigmasCol(PreImage, i)

\* C6 witness: process has run with a spread sigma set, a weight on the outer
\* columns and images that differ between columns, and the mean is a number.
C6_Witness ==
    /\ last.op = "process"
    /\ variant[1].gamma > 0
    /\ variant[1].wts[2] # 0
    /\ ~IsNaN(state[1][0])
    /\ StateSigmasCol(aug_sigmas[1], 1) # StateSigmasCol(aug_sigmas[1], 0)
    /\ StateSigmasCol(aug_sigmas[1], 1) # StateSigmasCol(aug_sigmas[1], 2)

\* C7: after every sigma-point generation rows [0,nx) of the augmented vector
\* hold the state passed in, its rows [nx,L) are zero, and so are the noise rows
\* of sigma column 0.
C7_NoiseMeansZero ==
    Generated =>
        /\ \A k \in Rows(nx) : aug_vector[1][k] = gen[1].state[k]
        /\ \A k \in nx..(L - 1) :
            aug_vector[1][k] = Num(0) /\ aug_sigmas[1][k][0] = Num(0)

\* C7 witness: sigma points were generated from a nonzero state on storage that
\* held nonzero values before.
C7_Witness ==
    /\ Generated
    /\ gen[1].state[0] = Num(2)
    /\ aug_matrix[1][1][0] # Num(0)

\* the lower Cholesky factor LLT leaves for a covariance
Factor(c, n) == MatrixL(LLT(c, n), n)

\* C8: _chol_covar always is the factor of the covariance the latest sigma-point
\* generation (or, before the first, the constructor) was handed; process_covar
\* hands its hook the factor of the covariance process found, update_covar the
\* factor of the covariance observe found.
C8_HookGetsLatestFactor ==
    /\ CholCovar(aug_matrix[1]) = Factor(gen[1].covar, nx)
    /\ last.op = "process_covar" =>
        (gen[1].by = "process" /\ last.chol = Factor(gen[1].covar, nx))
    /\ last.op = "update_covar" =>
        (gen[1].by = "observe" /\ last.chol = Factor(gen[1].covar, nx))

\* C8 witness: update_covar has handed its hook the factor of the covariance
\* observe found, which differs from the factor of the covariance it produced.
C8_Witness ==
    /\ last.op = "update_covar"
    /\ gen[1].by = "observe"
    /\ last.chol # Factor(covar[1], nx)

\* C9: the process-noise and observation-noise factors are those the constructor
\* computed; no step changes an entry of the augmented matrix outside the state
\* factor block, and only process and observe change that block.
C9_NoiseFactorsFrozen ==
    /\ CholProcCovar(aug_matrix[1]) = Factor(proc_covar[1], nx)
    /\ CholObsCovar(aug_matrix[1]) = Factor(obs_covar[1], nz)
    /\ [][/\ \A i \in Rows(L), j \in Rows(L) :
                (i >= nx \/ j >= nx) => aug_matrix'[1][i][j] = aug_matrix[1][i][j]
          /\ aug_matrix'[1] # aug_matrix[1] => last'.op \in {"process", "observe"}]_vars

\* C9 witness: a whole cycle has run; the state factor block was rewritten and the
\* two noise factors are the constructor's.
C9_Witness ==
    /\ last.op = "update_covar"
    /\ CholCovar(aug_matrix[1]) = ScalarMat(nx, 1)
    /\ CholProcCovar(aug_matrix[1]) = Factor(ScalarMat(nx, MaxCovar), nx)
    /\ CholObsCovar(aug_matrix[1]) = ScalarMat(nz, 1)

\* C10: a call on one instance changes neither the sigma-point matrix nor the
\* augmented matrix of any other instance.
C10_InstancesIndependent ==
    [][\A i \in DOMAIN refs :
          (i \in DOMAIN refs' /\ last'.id # i) =>
              (aug_sigmas'[i] = aug_sigmas[i] /\ aug_matrix'[i] = aug_matrix[i])]_vars
====
